---- MODULE Spec2Model ----
(***************************************************************************)
(* Model of the price calculator HTTP service (main.go).                   *)
(*                                                                         *)
(* Two package-level float64 variables, basePrice and taxRate, are read    *)
(* and written by three HTTP handlers.  net/http runs every request in its *)
(* own goroutine, so handler invocations interleave at the level of the    *)
(* individual loads and stores of the two globals; the code takes no lock. *)
(*                                                                         *)
(* A float64 is kept as its two 32-bit words (hex strings).  On a build    *)
(* with 64-bit words a load or store of a float64 is one step; on a build  *)
(* with 32-bit words (GOARCH=386, arm, mips) it is two steps, low word     *)
(* first.  The opposite order gives the same set of mixed results by       *)
(* symmetry of the two racing goroutines.                                  *)
(***************************************************************************)
EXTENDS Integers, FiniteSets, Sequences, TLC

VARIABLES
    wordSize,   \* 32 or 64: machine word of the build, fixed for a run
    basePrice,  \* main.go:23  var basePrice float64
    taxRate,    \* main.go:24  var taxRate float64
    req,        \* the handler invocations in flight, one record per goroutine
    started,    \* number of requests accepted so far
    prev,       \* history: the request that completed last and its response
    lastTax,    \* history: value of the last setTaxRate whose parse succeeded
    stored      \* history: every (basePrice, taxRate) pair memory has held

vars == <<wordSize, basePrice, taxRate, req, started, prev, lastTax, stored>>

----
\* Bounds of the model.

\* Handler goroutines that may be in flight at once.
MaxInFlight == 2

\* Requests accepted over a whole run.
MaxRequests == 3

Slots == 1..MaxInFlight

----
\* float64 values.

\* A float64 as two 32-bit words.
F64(h, l) == [hi |-> h, lo |-> l]

\* The zero value of a package-level float64.
Zero == F64("00000000", "00000000")

PosInf == F64("7FF00000", "00000000")

\* The number a bit pattern denotes: k is "fin" (n is its value), "inf"
\* (+Inf), "nan", or "other" (a positive finite value that is none of the
\* values the model parses: a pattern mixed from the words of two values).
Num(kind, v) == [k |-> kind, n |-> v]

Float64frombits(b) ==
    CASE b.hi = "7FF00000" /\ b.lo = "00000000" -> Num("inf", 0)
      [] b.hi = "7FF00000" /\ b.lo # "00000000" -> Num("nan", 0)
      [] b.hi = "00000000" /\ b.lo = "00000000" -> Num("fin", 0)
      [] b.hi = "40340000" /\ b.lo = "00000000" -> Num("fin", 20)
      [] b.hi = "40590000" /\ b.lo = "00000000" -> Num("fin", 100)
      [] b.hi = "408F3800" /\ b.lo = "00000000" -> Num("fin", 999)
      [] b.hi = "41400000" /\ b.lo = "80000000" -> Num("fin", 2097153)
      [] OTHER -> Num("other", 0)

\* strconv.ParseFloat(s, 64) on the path segments the model sends.  A
\* syntax error returns 0, a range error returns +Inf, both with err # nil.
ParseFloat(s) ==
    CASE s = "20"      -> [f |-> F64("40340000", "00000000"), err |-> "nil"]
      [] s = "100"     -> [f |-> F64("40590000", "00000000"), err |-> "nil"]
      [] s = "2097153" -> [f |-> F64("41400000", "80000000"), err |-> "nil"]
      [] s = "Inf"     -> [f |-> PosInf, err |-> "nil"]
      [] s = "1e999"   -> [f |-> PosInf, err |-> "ErrRange"]
      [] OTHER         -> [f |-> Zero, err |-> "ErrSyntax"]

\* The {value} segments sent to /setBasePrice and to /setTaxRate.
BasePriceSegments == {"100", "2097153", "Inf", "abc"}
TaxRateSegments == {"20", "abc", "1e999"}

\* Request bodies sent to /calculate.
Bodies == {"", "{\"base_price\": 999, \"tax_rate\": 999}"}

----
\* PriceEngine: the arithmetic of calculatePrice.

\* x * y on float64 (no modelled value is negative).
FMul(x, y) ==
    CASE x.k = "nan" \/ y.k = "nan" -> Num("nan", 0)
      [] x.k = "inf" /\ y = Num("fin", 0) -> Num("nan", 0)
      [] y.k = "inf" /\ x = Num("fin", 0) -> Num("nan", 0)
      [] x.k = "inf" \/ y.k = "inf" -> Num("inf", 0)
      [] x = Num("fin", 0) \/ y = Num("fin", 0) -> Num("fin", 0)
      [] x.k = "other" \/ y.k = "other" -> Num("other", 0)
      [] OTHER -> Num("fin", x.n * y.n)

\* x + p/100 on float64, the result counted in hundredths so that the
\* division is exact: x is in units, p is a product in units.
FAddHundredth(x, p) ==
    CASE x.k = "nan" \/ p.k = "nan" -> Num("nan", 0)
      [] x.k = "inf" \/ p.k = "inf" -> Num("inf", 0)
      [] x.k = "other" \/ p.k = "other" -> Num("other", 0)
      [] OTHER -> Num("fin", 100 * x.n + p.n)

\* main.go:113  request.BasePrice + (request.BasePrice * request.TaxRate / 100)
\* on the numbers b and t; TotalPrice is counted in hundredths.
computeTotal(b, t) == FAddHundredth(b, FMul(b, t))

\* A calculatePrice that decodes a PriceRequest from a non-empty body and
\* prices that instead of the stored values.
PriceResponseOfBody(request, body) ==
    IF body = ""
    THEN computeTotal(Float64frombits(request.BasePrice),
                      Float64frombits(request.TaxRate))
    ELSE computeTotal(Num("fin", 999), Num("fin", 999))

\* A calculatePrice that computes from the globals as they are after the
\* delay instead of from the PriceRequest built before it.
PriceResponseOfCurrent(request, body) ==
    computeTotal(Float64frombits(basePrice), Float64frombits(taxRate))

\* main.go:107,113,116  the PriceRequest is built from the two globals as
\* loaded; the request body is never read.
PriceResponseOf(request, body) ==
    computeTotal(Float64frombits(request.BasePrice),
                 Float64frombits(request.TaxRate))

\* encoding/json rejects NaN and the infinities (UnsupportedValueError).
Encodable(total) == total.k \in {"fin", "other"}

----
\* http.ResponseWriter as the handlers use it.

NoNum == Num("none", 0)

\* A response nothing has been written to.  status 0: no status line yet;
\* called: Header() was called; snap: the header map was copied when the
\* status was written, so later changes to it are not sent.
NoResp ==
    [status |-> 0, ctype |-> "", called |-> FALSE, snap |-> FALSE,
     kind |-> "none", text |-> "", total |-> NoNum]

PlainText == "text/plain; charset=utf-8"

\* w.Header().Set("Content-Type", ct)
HeaderSet(w, ct) ==
    [w EXCEPT !.called = TRUE, !.ctype = IF w.snap THEN @ ELSE ct]

\* w.WriteHeader(code): only the first call sets the status; a later call
\* is logged as superfluous and changes nothing.
WriteHeader(w, code) ==
    IF w.status # 0 THEN w
    ELSE [w EXCEPT !.status = code, !.snap = w.called]

\* w.Write(body): a missing Content-Type is sniffed from the body, and JSON
\* text sniffs as plain text.
Write(w, kind, text, total) ==
    [WriteHeader(w, 200) EXCEPT
        !.ctype = IF @ = "" THEN PlainText ELSE @,
        !.kind = kind, !.text = text, !.total = total]

\* http.Error(w, msg, code)
HttpError(w, msg, code) ==
    Write(WriteHeader(HeaderSet(w, PlainText), code), "error", msg, NoNum)

\* main.go:116-123  the response of calculatePrice.  Encode fails when the
\* total cannot be marshalled or when the connection refuses the encoded
\* body (wfail).
CalcResponse(total, wfail) ==
    LET w1 == WriteHeader(HeaderSet(NoResp, "application/json"), 200)
    IN  IF ~Encodable(total) \/ wfail
        THEN HttpError(w1, "Internal server error", 500)
        ELSE Write(w1, "total", "", total)

\* The texts of the two setters.
InvalidText(op) ==
    IF op = "setBasePrice" THEN "Invalid base price" ELSE "Invalid tax rate"

SetText(op) ==
    IF op = "setBasePrice" THEN "Base price set" ELSE "Tax rate set"

\* A setter that does not look at err and always confirms.
SetterResponseUnchecked(op, err, wfail) ==
    IF wfail
    THEN HttpError(WriteHeader(NoResp, 200), "Internal server error", 500)
    ELSE Write(WriteHeader(NoResp, 200), "message", SetText(op), NoNum)

\* main.go:134-146 and 157-169  the response of a setter.
SetterResponse(op, err, wfail) ==
    IF err # "nil"
    THEN HttpError(NoResp, InvalidText(op), 400)
    ELSE LET w1 == WriteHeader(NoResp, 200)
         IN  IF wfail
             THEN HttpError(w1, "Internal server error", 500)
             ELSE Write(w1, "message", SetText(op), NoNum)

----
\* Handler invocations.

Setters == {"setBasePrice", "setTaxRate"}

\* A goroutine slot with no request.  request is the PriceRequest of
\* calculatePrice; clean records that no other invocation of the same
\* setter has overlapped this one.
IdleSlot ==
    [op |-> "none", pc |-> "idle", value |-> "", body |-> "",
     request |-> [BasePrice |-> Zero, TaxRate |-> Zero], clean |-> TRUE]

\* prev before any request has completed.  Besides the request and its
\* response, prev keeps wfail (the connection refused the encoded body) and
\* encErr (Encode returned an error, for that or any other reason).
NoPrev ==
    [op |-> "none", value |-> "", body |-> "",
     request |-> [BasePrice |-> Zero, TaxRate |-> Zero],
     resp |-> NoResp, wfail |-> FALSE, encErr |-> FALSE]

Free(r) == req[r].pc = "idle"

InFlight(r) == ~Free(r)

\* The global a handler invocation is about to load or store.
Target(q) ==
    CASE q.op = "setBasePrice" -> "basePrice"
      [] q.op = "setTaxRate" -> "taxRate"
      [] q.pc \in {"ldBase", "ldBaseHi"} -> "basePrice"
      [] q.pc \in {"ldTax", "ldTaxHi"} -> "taxRate"
      [] OTHER -> "none"

\* The process after main has set up the router: both globals hold the
\* zero value (main.go:23-24) and no request has arrived.
Started ==
    /\ wordSize \in {32, 64}
    /\ basePrice = Zero
    /\ taxRate = Zero
    /\ req = [r \in Slots |-> IdleSlot]
    /\ started = 0
    /\ prev = NoPrev
    /\ lastTax = Zero

\* The history stored is kept only by runs that begin with a non-empty one.
Init == Started /\ stored = {}

HistInit == Started /\ stored = {<<Zero, Zero>>}

\* A request is routed to a handler: a new goroutine enters it.  Slots have
\* no identity of their own, so the goroutine takes the lowest free one.
Begin(r, op, pc, value, body) ==
    /\ Free(r)
    /\ \A o \in Slots : o < r => InFlight(o)
    /\ started < MaxRequests
    /\ started' = started + 1
    /\ req' = [q \in Slots |->
                IF q = r
                THEN [IdleSlot EXCEPT !.op = op, !.pc = pc, !.value = value,
                        !.body = body,
                        !.clean = \/ op \notin Setters
                                  \/ \A o \in Slots \ {r} : req[o].op # op]
                ELSE IF req[q].op = op /\ op \in Setters
                     THEN [req[q] EXCEPT !.clean = FALSE]
                     ELSE req[q]]
    /\ UNCHANGED <<wordSize, basePrice, taxRate, prev, lastTax, stored>>

\* POST /calculate  (main.go:53)
StartCalculate(r) ==
    \E body \in Bodies : Begin(r, "calculate", "ldBase", "", body)

\* POST /setBasePrice/{value}  (main.go:54, 129-130)
StartSetBasePrice(r) ==
    \E value \in BasePriceSegments : Begin(r, "setBasePrice", "store", value, "")

\* POST /setTaxRate/{value}  (main.go:55, 152-153)
StartSetTaxRate(r) ==
    \E value \in TaxRateSegments : Begin(r, "setTaxRate", "store", value, "")

\* The value of the global named g.
Global(g) == IF g = "basePrice" THEN basePrice ELSE taxRate

\* main.go:107  one field of the PriceRequest literal is loaded from its
\* global; h is "both", "lo" or "hi", the words this step loads.
LoadField(q, h) ==
    LET g == Global(Target(q))
        old == IF Target(q) = "basePrice" THEN q.request.BasePrice
               ELSE q.request.TaxRate
        new == CASE h = "both" -> g
                 [] h = "lo" -> [old EXCEPT !.lo = g.lo]
                 [] h = "hi" -> [old EXCEPT !.hi = g.hi]
    IN  IF Target(q) = "basePrice"
        THEN [q EXCEPT !.request.BasePrice = new]
        ELSE [q EXCEPT !.request.TaxRate = new]

\* main.go:107 on a 64-bit build: basePrice, then taxRate, one load each.
CalcLoad(r) ==
    /\ wordSize = 64
    /\ req[r].pc \in {"ldBase", "ldTax"}
    /\ req' = [req EXCEPT ![r] =
                [LoadField(req[r], "both") EXCEPT
                    !.pc = IF req[r].pc = "ldBase" THEN "ldTax" ELSE "sleep"]]
    /\ UNCHANGED <<wordSize, basePrice, taxRate, started, prev, lastTax, stored>>

\* main.go:107 on a 32-bit build: the low word of a field.
CalcLoadLo(r) ==
    /\ wordSize = 32
    /\ req[r].pc \in {"ldBase", "ldTax"}
    /\ req' = [req EXCEPT ![r] =
                [LoadField(req[r], "lo") EXCEPT
                    !.pc = IF req[r].pc = "ldBase" THEN "ldBaseHi" ELSE "ldTaxHi"]]
    /\ UNCHANGED <<wordSize, basePrice, taxRate, started, prev, lastTax, stored>>

\* main.go:107 on a 32-bit build: the high word of a field.
CalcLoadHi(r) ==
    /\ req[r].pc \in {"ldBaseHi", "ldTaxHi"}
    /\ req' = [req EXCEPT ![r] =
                [LoadField(req[r], "hi") EXCEPT
                    !.pc = IF req[r].pc = "ldBaseHi" THEN "ldTax" ELSE "sleep"]]
    /\ UNCHANGED <<wordSize, basePrice, taxRate, started, prev, lastTax, stored>>

\* main.go:110  time.Sleep(100 * time.Millisecond) returns.
CalcSleep(r) ==
    /\ req[r].pc = "sleep"
    /\ req' = [req EXCEPT ![r].pc = "respond"]
    /\ UNCHANGED <<wordSize, basePrice, taxRate, started, prev, lastTax, stored>>

\* The record prev of invocation q that returns with response w.
Completed(q, w, wfail, e) ==
    [op |-> q.op, value |-> q.value, body |-> q.body, request |-> q.request,
     resp |-> w, wfail |-> wfail, encErr |-> e]

\* A calculatePrice that consumes the configuration: it clears the stored
\* tax rate once it has answered.
CalcRespondClearing(r) ==
    /\ req[r].op = "calculate"
    /\ req[r].pc = "respond"
    /\ LET total == PriceResponseOf(req[r].request, req[r].body)
       IN  \E wfail \in IF Encodable(total) THEN BOOLEAN ELSE {FALSE} :
                prev' = Completed(req[r], CalcResponse(total, wfail), wfail,
                                  ~Encodable(total) \/ wfail)
    /\ req' = [req EXCEPT ![r] = IdleSlot]
    /\ taxRate' = Zero
    /\ stored' = IF stored = {} THEN {}
                 ELSE stored \cup {<<basePrice, taxRate'>>}
    /\ UNCHANGED <<wordSize, basePrice, started, lastTax>>

\* main.go:113-125  the total is computed from the snapshot and written,
\* and the handler returns.
CalcRespond(r) ==
    /\ req[r].op = "calculate"
    /\ req[r].pc = "respond"
    /\ LET total == PriceResponseOf(req[r].request, req[r].body)
       IN  \E wfail \in IF Encodable(total) THEN BOOLEAN ELSE {FALSE} :
                prev' = Completed(req[r], CalcResponse(total, wfail), wfail,
                                  ~Encodable(total) \/ wfail)
    /\ req' = [req EXCEPT ![r] = IdleSlot]
    /\ UNCHANGED <<wordSize, basePrice, taxRate, started, lastTax, stored>>

\* An assignment written += : the parsed value is added to the global (the
\* sum of two non-zero finite values is abbreviated to 200).
AssignedAdd(old, parsed) ==
    CASE old = Zero -> parsed.f
      [] parsed.f = Zero -> old
      [] old = PosInf \/ parsed.f = PosInf -> PosInf
      [] OTHER -> F64("40690000", "00000000")

\* main.go:133 and 156  the float64 that the assignment leaves in the
\* global: the first result of ParseFloat, whatever err is.
Assigned(old, parsed) == parsed.f

\* The words of g after a store of the words h of v.
StoreWords(g, v, h) ==
    CASE h = "both" -> v
      [] h = "lo" -> [g EXCEPT !.lo = v.lo]
      [] h = "hi" -> [g EXCEPT !.hi = v.hi]

\* A setter that assigns the parsed value to both globals.
StoreFieldAll(r, h) ==
    LET v == Assigned(Global(Target(req[r])), ParseFloat(req[r].value))
    IN  /\ basePrice' = StoreWords(basePrice, v, h)
        /\ taxRate' = StoreWords(taxRate, v, h)
        /\ stored' = IF stored = {} THEN {}
                     ELSE stored \cup {<<basePrice', taxRate'>>}

\* main.go:133 and 156  the global of setter r receives the words h.
StoreField(r, h) ==
    LET g == Target(req[r])
        v == Assigned(Global(g), ParseFloat(req[r].value))
    IN  /\ basePrice' = IF g = "basePrice" THEN StoreWords(basePrice, v, h)
                        ELSE basePrice
        /\ taxRate' = IF g = "taxRate" THEN StoreWords(taxRate, v, h)
                      ELSE taxRate
        /\ stored' = IF stored = {} THEN {}
                     ELSE stored \cup {<<basePrice', taxRate'>>}

\* main.go:133 and 156 on a 64-bit build: one store.
SetStore(r) ==
    /\ wordSize = 64
    /\ req[r].op \in Setters
    /\ req[r].pc = "store"
    /\ StoreField(r, "both")
    /\ req' = [req EXCEPT ![r].pc = "respond"]
    /\ UNCHANGED <<wordSize, started, prev, lastTax>>

\* main.go:133 and 156 on a 32-bit build: the low word.
SetStoreLo(r) ==
    /\ wordSize = 32
    /\ req[r].op \in Setters
    /\ req[r].pc = "store"
    /\ StoreField(r, "lo")
    /\ req' = [req EXCEPT ![r].pc = "storeHi"]
    /\ UNCHANGED <<wordSize, started, prev, lastTax>>

\* main.go:133 and 156 on a 32-bit build: the high word.
SetStoreHi(r) ==
    /\ req[r].pc = "storeHi"
    /\ StoreField(r, "hi")
    /\ req' = [req EXCEPT ![r].pc = "respond"]
    /\ UNCHANGED <<wordSize, started, prev, lastTax>>

\* A setter that undoes its assignment when the confirmation cannot be
\* encoded (the value before the request is abbreviated to the zero value).
SetRespondRollback(r) ==
    /\ req[r].op \in Setters
    /\ req[r].pc = "respond"
    /\ LET p == ParseFloat(req[r].value)
       IN  /\ \E wfail \in IF p.err = "nil" THEN BOOLEAN ELSE {FALSE} :
                /\ prev' = Completed(req[r],
                                     SetterResponse(req[r].op, p.err, wfail),
                                     wfail, wfail)
                /\ basePrice' = IF wfail /\ req[r].op = "setBasePrice"
                                THEN Zero ELSE basePrice
                /\ taxRate' = IF wfail /\ req[r].op = "setTaxRate"
                              THEN Zero ELSE taxRate
           /\ lastTax' = IF req[r].op = "setTaxRate" /\ p.err = "nil"
                         THEN p.f ELSE lastTax
    /\ req' = [req EXCEPT ![r] = IdleSlot]
    /\ UNCHANGED <<wordSize, started, stored>>

\* main.go:134-148 and 157-171  the setter answers and returns.
SetRespond(r) ==
    /\ req[r].op \in Setters
    /\ req[r].pc = "respond"
    /\ LET p == ParseFloat(req[r].value)
       IN  /\ \E wfail \in IF p.err = "nil" THEN BOOLEAN ELSE {FALSE} :
                prev' = Completed(req[r],
                                  SetterResponse(req[r].op, p.err, wfail),
                                  wfail, wfail)
           /\ lastTax' = IF req[r].op = "setTaxRate" /\ p.err = "nil"
                         THEN p.f ELSE lastTax
    /\ req' = [req EXCEPT ![r] = IdleSlot]
    /\ UNCHANGED <<wordSize, basePrice, taxRate, started, stored>>

\* A server that lets a handler run only while no other request is in
\* flight: every handler waits for the others.
StepExclusive(r) ==
    /\ \A o \in Slots \ {r} : Free(o)
    /\ \/ CalcLoad(r)
       \/ CalcLoadLo(r)
       \/ CalcLoadHi(r)
       \/ CalcSleep(r)
       \/ CalcRespond(r)
       \/ SetStore(r)
       \/ SetStoreLo(r)
       \/ SetStoreHi(r)
       \/ SetRespond(r)

\* One step of the handler goroutine in slot r.
Step(r) ==
    \/ CalcLoad(r)
    \/ CalcLoadLo(r)
    \/ CalcLoadHi(r)
    \/ CalcSleep(r)
    \/ CalcRespond(r)
    \/ SetStore(r)
    \/ SetStoreLo(r)
    \/ SetStoreHi(r)
    \/ SetRespond(r)

\* Requests arrive at any time: handlers run concurrently.
Next ==
    \E r \in Slots :
        \/ StartCalculate(r)
        \/ StartSetBasePrice(r)
        \/ StartSetTaxRate(r)
        \/ Step(r)

Spec == Init /\ [][Next]_vars

\* A client that waits for each response before it sends the next request.
Quiet == \A q \in Slots : Free(q)

SeqNext ==
    \E r \in Slots :
        \/ Quiet /\ StartCalculate(r)
        \/ Quiet /\ StartSetBasePrice(r)
        \/ Quiet /\ StartSetTaxRate(r)
        \/ Step(r)

SeqSpec == Init /\ [][SeqNext]_vars

\* The concurrent service with the history of stored pairs recorded.
HistSpec == HistInit /\ [][Next]_vars

\* The two setters alone, running concurrently: clients that send only
\* POST /setBasePrice and POST /setTaxRate requests.
SetterNext ==
    \E r \in Slots :
        \/ StartSetBasePrice(r)
        \/ StartSetTaxRate(r)
        \/ SetStore(r)
        \/ SetStoreLo(r)
        \/ SetStoreHi(r)
        \/ SetRespond(r)

SetterSpec == Init /\ [][SetterNext]_vars

\* No setter is in flight.
NoSetter == \A q \in Slots : req[q].op \notin Setters

\* Every calculate in flight has built its PriceRequest (main.go:107) and is
\* in its delay or past it.
Loaded ==
    \A q \in Slots :
        req[q].op = "calculate" => req[q].pc \in {"sleep", "respond"}

\* Clients that never let a setter overlap the loads of a calculate: a
\* calculate is sent when no setter is in flight, a setter when every
\* calculate in flight is in its delay or past it.  Setters overlap each
\* other and the delays of the calculates.
DelayNext ==
    \E r \in Slots :
        \/ NoSetter /\ StartCalculate(r)
        \/ Loaded /\ StartSetBasePrice(r)
        \/ Loaded /\ StartSetTaxRate(r)
        \/ Step(r)

DelaySpec == Init /\ [][DelayNext]_vars

\* Clients that send a calculate when nothing is in flight and, while it is
\* in its delay or past it, one setter at a time.
PairNext ==
    \E r \in Slots :
        \/ Quiet /\ StartCalculate(r)
        \/ Loaded /\ NoSetter /\ StartSetBasePrice(r)
        \/ Loaded /\ NoSetter /\ StartSetTaxRate(r)
        \/ Step(r)

\* Those clients, with every handler goroutine scheduled again and again:
\* the Go scheduler runs every runnable goroutine, time.Sleep returns, and
\* no handler waits for a lock, a channel or another handler.
FairPairSpec ==
    Init /\ [][PairNext]_vars /\ \A r \in Slots : WF_vars(Step(r))

----
\* Steps of one invocation, as seen in a pair of states.

\* Invocation r executes a step of its handler.
Acts(r) == req[r].pc # "idle" /\ req'[r].pc # req[r].pc

\* The handler of invocation r returns; prev' is then its record.
Returns(r) == req[r].pc = "respond" /\ req'[r].pc = "idle"

\* The value of the global named g after the step.
GlobalAfter(g) == IF g = "basePrice" THEN basePrice' ELSE taxRate'

\* strconv.ParseFloat accepts the segment.
Parses(s) == ParseFloat(s).err = "nil"

\* The segment is not the text of a number at all.
NonNumeric(s) == ParseFloat(s).err = "ErrSyntax"

----
\* C1: a POST /setBasePrice/s with a non-numeric s responds 400 and leaves
\* the stored base price as it was: no step of such an invocation changes
\* basePrice, and its response has status 400.
C1_InvalidBasePriceKeepsState ==
    [][\A r \in Slots :
        (req[r].op = "setBasePrice" /\ NonNumeric(req[r].value) /\ Acts(r))
        => /\ basePrice' = basePrice
           /\ Returns(r) => prev'.resp.status = 400]_vars

\* C2: a POST /setTaxRate/s with a non-numeric s responds 400 and leaves
\* both the tax rate and the base price as they were.
C2_InvalidTaxRateKeepsState ==
    [][\A r \in Slots :
        (req[r].op = "setTaxRate" /\ NonNumeric(req[r].value) /\ Acts(r))
        => /\ taxRate' = taxRate
           /\ basePrice' = basePrice
           /\ Returns(r) => prev'.resp.status = 400]_vars

\* Invocation q is at a load or a store of a global.
AtAccess(q) ==
    q.pc \in {"ldBase", "ldBaseHi", "ldTax", "ldTaxHi", "store", "storeHi"}

\* C3: accesses to the configuration are race-free: no two invocations are
\* at an access of the same global, with nothing ordering them, when one of
\* the two accesses is a store.
C3_NoDataRace ==
    \A r1, r2 \in Slots :
        (/\ r1 # r2
         /\ AtAccess(req[r1]) /\ AtAccess(req[r2])
         /\ Target(req[r1]) = Target(req[r2]))
        => (req[r1].op \notin Setters /\ req[r2].op \notin Setters)

\* C4: with requests sent one after the other, a calculate that follows a
\* setBasePrice/v with a finite number v returns total_price = v + v*t/100,
\* t being the value of the last setTaxRate that succeeded, 0 if there was
\* none (the total is counted in hundredths: 100*v + v*t).  The case where
\* the connection refuses the body is left out.
C4_TotalAfterSetBasePrice ==
    [][\A r \in Slots :
        LET v == Float64frombits(ParseFloat(prev.value).f)
            t == Float64frombits(lastTax)
        IN  (/\ req[r].op = "calculate" /\ Returns(r)
             /\ prev.op = "setBasePrice" /\ Parses(prev.value) /\ v.k = "fin"
             /\ ~prev'.wfail)
            => /\ prev'.resp.status = 200
               /\ prev'.resp.kind = "total"
               /\ prev'.resp.total = Num("fin", 100 * v.n + v.n * t.n)]_vars

\* C5: the (base price, tax rate) pair a calculate computes from was the
\* stored configuration at some one instant.
C5_SnapshotWasStored ==
    \A r \in Slots :
        (req[r].op = "calculate" /\ req[r].pc \in {"sleep", "respond"})
        => <<req[r].request.BasePrice, req[r].request.TaxRate>> \in stored

\* The values a setBasePrice request of the model can assign.
BasePricesWritten == {ParseFloat(s).f : s \in BasePriceSegments}

\* C6: once the concurrent setBasePrice requests have all completed, the
\* base price read is the value of one of them, never a pattern mixed from
\* two of them.
C6_BasePriceIsAWrittenValue ==
    (\A r \in Slots : req[r].op # "setBasePrice")
    => basePrice \in BasePricesWritten \cup {Zero}

\* C7: a request whose response encoding failed gets status 500.
C7_EncodeFailureIs500 ==
    prev.encErr => prev.resp.status = 500

\* C8: the response of calculate does not depend on the request body: a
\* calculate that loaded the same base price and tax rate as the calculate
\* completed just before it returns the same response, whatever the two
\* bodies are (the connection treating both alike).
C8_BodyIgnored ==
    [][\A r \in Slots :
        (/\ req[r].op = "calculate" /\ Returns(r)
         /\ prev.op = "calculate"
         /\ prev.request = req[r].request
         /\ prev'.wfail = prev.wfail)
        => prev'.resp = prev.resp]_vars

\* C8 witness: a calculate has returned a total for a non-zero base price,
\* and a second one that loaded the same pair, sent with another body, is
\* about to respond.
C8_Witness ==
    \E r \in Slots :
        /\ req[r].op = "calculate" /\ req[r].pc = "respond"
        /\ prev.op = "calculate" /\ prev.resp.kind = "total"
        /\ prev.request = req[r].request
        /\ prev.request.BasePrice # Zero
        /\ prev.body # req[r].body

\* C9: setters are idempotent: with requests sent one after the other, a
\* setter request that repeats the setter request completed just before it
\* changes neither global at any step and returns the same response (the
\* connection treating both alike).
C9_SetterIdempotent ==
    [][\A r \in Slots :
        (/\ req[r].op \in Setters /\ Acts(r)
         /\ prev.op = req[r].op /\ prev.value = req[r].value)
        => /\ basePrice' = basePrice
           /\ taxRate' = taxRate
           /\ (Returns(r) /\ prev'.wfail = prev.wfail)
                => prev'.resp = prev.resp]_vars

\* C9 witness: setBasePrice/100 has completed and a second setBasePrice/100
\* has stored and is about to respond.
C9_Witness ==
    \E r \in Slots :
        /\ req[r].op = "setBasePrice" /\ req[r].pc = "respond"
        /\ req[r].value = "100"
        /\ prev.op = "setBasePrice" /\ prev.value = "100"
        /\ basePrice = ParseFloat("100").f

\* The response of a setter is status 200 with its confirmation message.
Confirms(w, op) ==
    w.status = 200 /\ w.kind = "message" /\ w.text = SetText(op)

Successful(w) == w.status = 200 /\ w.kind \in {"total", "message"}

\* C11: every successful (200) response of the three endpoints carries
\* Content-Type application/json.
C11_SuccessIsJson ==
    Successful(prev.resp) => prev.resp.ctype = "application/json"

\* C12: setters touch disjoint fields: no step of a setBasePrice request,
\* valid or not, changes taxRate, and no step of a setTaxRate request changes
\* basePrice, whatever else is in flight.
C12_SettersDisjoint ==
    [][\A r \in Slots :
        Acts(r) =>
            /\ req[r].op = "setBasePrice" => taxRate' = taxRate
            /\ req[r].op = "setTaxRate" => basePrice' = basePrice]_vars

\* C12 witness: a setTaxRate has stored its value while the base price holds
\* another, non-zero value set before.
C12_Witness ==
    \E r \in Slots :
        /\ req[r].op = "setTaxRate" /\ req[r].pc = "respond"
        /\ taxRate = ParseFloat(req[r].value).f
        /\ basePrice \notin {Zero, taxRate}

\* C13: a setter request whose value parses and whose response encoding
\* fails has still written: the handler returns with the error text, the
\* return changes neither global, and the targeted field holds the parsed
\* value (no other setter of that field having overlapped the request).
C13_WriteSurvivesEncodeFailure ==
    [][\A r \in Slots :
        (/\ req[r].op \in Setters /\ Returns(r)
         /\ Parses(req[r].value) /\ prev'.encErr)
        => /\ prev'.resp.kind = "error"
           /\ basePrice' = basePrice /\ taxRate' = taxRate
           /\ req[r].clean =>
                GlobalAfter(Target(req[r])) = ParseFloat(req[r].value).f]_vars

\* C13 witness: a setBasePrice with a numeric value has returned after its
\* encoding failed, and the base price holds the parsed, non-zero value.
C13_Witness ==
    /\ prev.op = "setBasePrice" /\ Parses(prev.value)
    /\ prev.encErr /\ prev.resp.kind = "error"
    /\ basePrice = ParseFloat(prev.value).f
    /\ basePrice # Zero

\* Invocation q is a calculate that is building its PriceRequest.
Loading(q) ==
    q.op = "calculate" /\ q.pc \in {"ldBase", "ldBaseHi", "ldTax", "ldTaxHi"}

\* The total of the PriceRequest of invocation q (main.go:113).
SnapshotTotal(q) ==
    computeTotal(Float64frombits(q.request.BasePrice),
                 Float64frombits(q.request.TaxRate))

\* C14: calculate computes from a snapshot taken before its delay.  With no
\* setter overlapping the loads: the stored values do not change while the
\* PriceRequest is built, so the PriceRequest the delay starts with is the
\* configuration left by the writes completed before the calculate began;
\* no step taken during or after the delay, a setter's included, changes
\* that PriceRequest; and the total returned is the total of it.
C14_SnapshotBeforeDelay ==
    [][\A r \in Slots :
        /\ Loading(req[r]) =>
              /\ basePrice' = basePrice /\ taxRate' = taxRate
              /\ req'[r].pc = "sleep" =>
                    req'[r].request =
                        [BasePrice |-> basePrice, TaxRate |-> taxRate]
        /\ (req[r].op = "calculate" /\ req[r].pc \in {"sleep", "respond"}) =>
              /\ req'[r].pc # "idle" => req'[r].request = req[r].request
              /\ (Returns(r) /\ ~prev'.encErr) =>
                    /\ prev'.resp.kind = "total"
                    /\ prev'.resp.total = SnapshotTotal(req[r])]_vars

\* C14 witness: a calculate that loaded a non-zero base price set before it
\* began is past its delay, and a setBasePrice that started and completed
\* meanwhile has left another base price in the global.
C14_Witness ==
    \E r \in Slots :
        /\ req[r].op = "calculate" /\ req[r].pc = "respond"
        /\ req[r].request.BasePrice # Zero
        /\ prev.op = "setBasePrice" /\ Parses(prev.value)
        /\ basePrice = ParseFloat(prev.value).f
        /\ basePrice # req[r].request.BasePrice
        /\ Encodable(SnapshotTotal(req[r]))

\* C15: a calculate request never modifies the configuration: no step of a
\* calculate changes basePrice or taxRate, so, with requests sent one after
\* the other, a calculate that follows a calculate returns the same
\* response (the connection treating both alike).
C15_CalculateReadOnly ==
    [][\A r \in Slots :
        (req[r].op = "calculate" /\ Acts(r))
        => /\ basePrice' = basePrice
           /\ taxRate' = taxRate
           /\ (Returns(r) /\ prev.op = "calculate"
                    /\ prev'.wfail = prev.wfail)
                => prev'.resp = prev.resp]_vars

\* C15 witness: with a non-zero base price stored, a calculate has returned
\* its total, the globals still hold the values it loaded, and the calculate
\* sent next has loaded the same values and is about to respond.
C15_Witness ==
    \E r \in Slots :
        /\ req[r].op = "calculate" /\ req[r].pc = "respond"
        /\ prev.op = "calculate" /\ prev.resp.kind = "total"
        /\ basePrice # Zero
        /\ prev.request = [BasePrice |-> basePrice, TaxRate |-> taxRate]
        /\ req[r].request = prev.request

====
